---- MODULE Spec2Model ----
(***************************************************************************)
(* Shape-level model of model/UNet.py: the sinusoidal timestep embedding,  *)
(* the conditioned sequential composer, the construction of UNet and       *)
(* UNet_Energy (channel and resolution bookkeeping, constructor checks)    *)
(* and their forward passes (skip stack, resampling, concatenation).       *)
(* Tensors are represented by their shapes; a failing torch operation      *)
(* is an error result that aborts the call.                                *)
(***************************************************************************)
EXTENDS Integers, Sequences, FiniteSets, TLC

VARIABLES
    cfg,                \* keyword arguments of UNet / UNet_Energy __init__
    pc,                 \* position inside __init__
    down_blocks,        \* self.down_blocks : list of composers (layer lists)
    down_block_chans,   \* construction-time skip-channel stack
    ch,                 \* current channel count
    ds,                 \* current downsampling factor
    level,              \* index of the channel_mult loop (0-based)
    rep,                \* index of the inner repeat loop (0-based)
    middle_block,       \* self.middle_block
    up_blocks,          \* self.up_blocks
    img_out,            \* self.img_out
    param_out,          \* self.param_out
    property_predictor, \* self.property_predictor (UNet_Energy)
    cerr,               \* exception raised by __init__, "none" if none
    calls,              \* forward calls: locals of each invocation
    hs,                 \* the skip stacks of the forward calls
    te,                 \* locals of one timestep_embedding call
    sq                  \* locals of one TimestepEmbedSequential.forward call

netVars  == <<cfg, pc, down_blocks, down_block_chans, ch, ds, level, rep,
              middle_block, up_blocks, img_out, param_out,
              property_predictor, cerr>>
callVars == <<calls, hs>>
vars     == <<cfg, pc, down_blocks, down_block_chans, ch, ds, level, rep,
              middle_block, up_blocks, img_out, param_out,
              property_predictor, cerr, calls, hs, te, sq>>

----------------------------------------------------------------------------
(* Bounds of the exploration *)

MaxLevels    == 3      \* longest channel_mult tuple
MaxResBlocks == 1      \* largest num_res_blocks
MaxSize      == 4      \* largest input height / width
MaxBatch     == 2      \* largest batch size N
MaxDim       == 7      \* largest dim of timestep_embedding
MaxBlocks    == 3      \* longest layer list of a composer run on its own
NumCalls     == 2      \* forward calls interleaved on one instance

(* Program constants *)

GroupNormGroups == 32  \* nn.GroupNorm(32, channels)
TimeEmbedFactor == 4   \* time_embed_dim = model_channels * 4

Min(a, b) == IF a < b THEN a ELSE b

RECURSIVE Pow2(_)
Pow2(k) == IF k <= 0 THEN 1 ELSE 2 * Pow2(k - 1)

SeqsUpTo(S, n) == UNION {[1..k -> S] : k \in 0..n}

----------------------------------------------------------------------------
(* timestep_embedding: the matrix is a sequence of N rows, each a sequence  *)
(* of entries; an entry records the function applied and its argument.     *)

TimestepVals == {0, 5}

ZeroEntry == [fn |-> "zero", t |-> 0, i |-> 0]

\* half = dim // 2
Half(dim) == dim \div 2

\* torch.arange(start=0, end=half): the frequency indices (freq_i is a
\* function of i and half only)
Freqs(dim) == [k \in 1..Half(dim) |-> k - 1]

\* args = timesteps[:, None] * freqs[None]
Args(timesteps, freqs) ==
    [b \in 1..Len(timesteps) |->
        [k \in 1..Len(freqs) |-> [t |-> timesteps[b], i |-> freqs[k]]]]

\* torch.cat([torch.cos(args), torch.sin(args)], dim=-1)
CosSinCat(args) ==
    [b \in 1..Len(args) |->
        [k \in 1..Len(args[b]) |-> [fn |-> "cos", t |-> args[b][k].t, i |-> args[b][k].i]]
        \o
        [k \in 1..Len(args[b]) |-> [fn |-> "sin", t |-> args[b][k].t, i |-> args[b][k].i]]]

\* embedding[:, :1] : python slicing clips at the number of columns
FirstColumn(embedding) ==
    [b \in 1..Len(embedding) |-> SubSeq(embedding[b], 1, Min(1, Len(embedding[b])))]

\* torch.zeros_like(m)
ZerosLike(m) == [b \in 1..Len(m) |-> [k \in 1..Len(m[b]) |-> ZeroEntry]]

\* if dim % 2: embedding = torch.cat([embedding, zeros_like(embedding[:, :1])])
ZeroPad(embedding, dim) ==
    IF dim % 2 # 0
    THEN [b \in 1..Len(embedding) |-> embedding[b] \o ZerosLike(FirstColumn(embedding))[b]]
    ELSE embedding

timestep_embedding(timesteps, dim) ==
    ZeroPad(CosSinCat(Args(timesteps, Freqs(dim))), dim)

\* number of columns of a matrix with at least one row
Columns(m) == Len(m[1])

TeIdle == [pc |-> "idle", timesteps |-> <<>>, dim |-> 0,
           freqs |-> <<>>, args |-> <<>>, embedding |-> <<>>]

\* line 19-22
TeFreqs ==
    /\ te.pc = "start"
    /\ te' = [te EXCEPT !.pc = "args", !.freqs = Freqs(te.dim)]
    /\ UNCHANGED <<cfg, pc, down_blocks, down_block_chans, ch, ds, level, rep,
                   middle_block, up_blocks, img_out, param_out,
                   property_predictor, cerr, calls, hs, sq>>

\* line 23
TeArgs ==
    /\ te.pc = "args"
    /\ te' = [te EXCEPT !.pc = "cat", !.args = Args(te.timesteps, te.freqs)]
    /\ UNCHANGED <<cfg, pc, down_blocks, down_block_chans, ch, ds, level, rep,
                   middle_block, up_blocks, img_out, param_out,
                   property_predictor, cerr, calls, hs, sq>>

\* line 24
TeCat ==
    /\ te.pc = "cat"
    /\ te' = [te EXCEPT !.pc = "pad", !.embedding = CosSinCat(te.args)]
    /\ UNCHANGED <<cfg, pc, down_blocks, down_block_chans, ch, ds, level, rep,
                   middle_block, up_blocks, img_out, param_out,
                   property_predictor, cerr, calls, hs, sq>>

\* lines 25-27
TePad ==
    /\ te.pc = "pad"
    /\ te' = [te EXCEPT !.pc = "done", !.embedding = ZeroPad(te.embedding, te.dim)]
    /\ UNCHANGED <<cfg, pc, down_blocks, down_block_chans, ch, ds, level, rep,
                   middle_block, up_blocks, img_out, param_out,
                   property_predictor, cerr, calls, hs, sq>>

----------------------------------------------------------------------------
(* Layers.  A layer is a record of its class name and constructor arguments *)
(* (fields a class does not have are 0 / FALSE).                            *)

Layer(kind, cin, cout, heads, use_conv, pdim, tdim) ==
    [kind |-> kind, cin |-> cin, cout |-> cout, heads |-> heads,
     use_conv |-> use_conv, pdim |-> pdim, tdim |-> tdim]

Conv2d(cin, cout)              == Layer("Conv2d", cin, cout, 0, TRUE, 0, 0)
ResidualBlock(cin, cout, tdim) == Layer("ResidualBlock", cin, cout, 0, FALSE, 0, tdim)
AttentionBlock(c, heads)       == Layer("AttentionBlock", c, c, heads, FALSE, 0, 0)
CrossModalAttentionBlock(c, pdim, heads) ==
    Layer("CrossModalAttentionBlock", c, c, heads, FALSE, pdim, 0)
Upsample(c, use_conv)          == Layer("Upsample", c, c, 0, use_conv, 0, 0)
Downsample(c, use_conv)        == Layer("Downsample", c, c, 0, use_conv, 0, 0)

\* classes deriving from TimestepBlock
TimestepBlockKinds == {"ResidualBlock", "TimestepEmbedSequential"}

(* Constructor checks: the exception a constructor raises, "none" if none *)

\* nn.GroupNorm(32, channels) requires channels divisible by the group count
NormLayerOK(channels) == channels % GroupNormGroups = 0

HeadsDivide_Always(channels, heads) == TRUE

\* assert channels % num_heads == 0
HeadsDivide(channels, heads) == channels % heads = 0

ResidualBlockCtor(cin, cout) ==
    IF NormLayerOK(cin) /\ NormLayerOK(cout) THEN "none" ELSE "ValueError"

AttentionBlockCtor(channels, heads) ==
    IF ~HeadsDivide(channels, heads) THEN "AssertionError"
    ELSE IF ~NormLayerOK(channels) THEN "ValueError"
    ELSE "none"

CrossModalAttentionBlockCtor(channels, heads) ==
    IF ~HeadsDivide(channels, heads) THEN "AssertionError"
    ELSE IF ~NormLayerOK(channels) THEN "ValueError"
    ELSE "none"

\* the first exception of a sequence of constructor calls
RECURSIVE FirstErr(_)
FirstErr(errs) ==
    IF errs = <<>> THEN "none"
    ELSE IF Head(errs) # "none" THEN Head(errs)
    ELSE FirstErr(Tail(errs))

----------------------------------------------------------------------------
(* Tensors are shapes: [n, c, h, w] for images, [n, c] for vectors.         *)

Tensor(n, c, h, w) == [n |-> n, c |-> c, h |-> h, w |-> w]
Vec(n, c)          == [n |-> n, c |-> c]
None               == [n |-> -1, c |-> -1]
IsNone(v)          == v.n = -1

Ok(t)     == [ok |-> TRUE,  t |-> t, err |-> "none"]
Fail(t, e) == [ok |-> FALSE, t |-> t, err |-> e]

\* nn.Conv2d(kernel_size=3, stride=2, padding=1): floor((s + 2 - 3) / 2) + 1
StridedConvSize(s) == ((s - 1) \div 2) + 1

\* nn.AvgPool2d(kernel_size=2, stride=2): floor((s - 2) / 2) + 1
AvgPoolSize(s) == IF s < 2 THEN 0 ELSE ((s - 2) \div 2) + 1

InterpolateSize_Same(s) == s

\* F.interpolate(x, scale_factor=2, mode="nearest")
InterpolateSize(s) == 2 * s

ResidualBlockForward(l, x, t) ==
    IF x.c # l.cin THEN Fail(x, "RuntimeError")            \* conv1
    ELSE IF t.c # l.tdim THEN Fail(x, "RuntimeError")      \* time_emb Linear
    ELSE IF t.n # x.n /\ t.n # 1 THEN Fail(x, "RuntimeError")
    ELSE Ok(Tensor(x.n, l.cout, x.h, x.w))

AttentionBlockForward(l, x) ==
    IF x.c # l.cin THEN Fail(x, "RuntimeError")            \* norm / qkv
    ELSE Ok(x)

CrossModalAttentionBlockForward(l, img, params) ==
    IF img.c # l.cin THEN Fail(img, "RuntimeError")        \* img_norm
    ELSE IF params.c # l.pdim THEN Fail(img, "RuntimeError")   \* param_norm
    ELSE IF params.n # img.n THEN Fail(img, "RuntimeError")    \* k.reshape
    ELSE Ok(img)

UpsampleForward(l, x) ==
    LET y == Tensor(x.n, x.c, InterpolateSize(x.h), InterpolateSize(x.w))
    IN  IF l.use_conv /\ x.c # l.cin THEN Fail(x, "RuntimeError") ELSE Ok(y)

DownsampleForward(l, x) ==
    IF l.use_conv
    THEN IF x.c # l.cin THEN Fail(x, "RuntimeError")
         ELSE Ok(Tensor(x.n, x.c, StridedConvSize(x.h), StridedConvSize(x.w)))
    ELSE IF AvgPoolSize(x.h) = 0 \/ AvgPoolSize(x.w) = 0
         THEN Fail(x, "RuntimeError")
         ELSE Ok(Tensor(x.n, x.c, AvgPoolSize(x.h), AvgPoolSize(x.w)))

Conv2dForward(l, x) ==
    IF x.c # l.cin THEN Fail(x, "RuntimeError")
    ELSE Ok(Tensor(x.n, l.cout, x.h, x.w))

----------------------------------------------------------------------------
(* TimestepEmbedSequential.forward *)

Dispatch_EmbDefault(layer, params) ==
    IF layer.kind = "CrossModalAttentionBlock" /\ ~IsNone(params) THEN "x,params"
    ELSE "x,emb"

\* the branch taken for one layer: which arguments the layer is called with
Dispatch(layer, params) ==
    IF layer.kind = "CrossModalAttentionBlock" /\ ~IsNone(params) THEN "x,params"
    ELSE IF layer.kind \in TimestepBlockKinds THEN "x,emb"
    ELSE "x"

\* layer(...) with the arguments of the branch; a call whose argument count
\* does not fit the layer's forward raises TypeError
CallLayer(layer, sig, x, emb, params) ==
    LET second == IF sig = "x,params" THEN params ELSE emb
    IN  CASE layer.kind = "ResidualBlock" ->
               IF sig = "x" THEN Fail(x, "TypeError")
               ELSE ResidualBlockForward(layer, x, second)
          [] layer.kind = "CrossModalAttentionBlock" ->
               IF sig = "x" THEN Fail(x, "TypeError")
               ELSE CrossModalAttentionBlockForward(layer, x, second)
          [] layer.kind = "AttentionBlock" ->
               IF sig # "x" THEN Fail(x, "TypeError") ELSE AttentionBlockForward(layer, x)
          [] layer.kind = "Upsample" ->
               IF sig # "x" THEN Fail(x, "TypeError") ELSE UpsampleForward(layer, x)
          [] layer.kind = "Downsample" ->
               IF sig # "x" THEN Fail(x, "TypeError") ELSE DownsampleForward(layer, x)
          [] OTHER ->
               IF sig # "x" THEN Fail(x, "TypeError") ELSE Conv2dForward(layer, x)

\* the whole loop of TimestepEmbedSequential.forward, from layer k on
RECURSIVE RunFrom(_, _, _, _, _)
RunFrom(layers, k, x, emb, params) ==
    IF k > Len(layers) THEN Ok(x)
    ELSE LET r == CallLayer(layers[k], Dispatch(layers[k], params), x, emb, params)
         IN  IF r.ok THEN RunFrom(layers, k + 1, r.t, emb, params) ELSE r

TimestepEmbedSequentialForward(layers, x, emb, params) ==
    RunFrom(layers, 1, x, emb, params)

(* One composer call taken layer by layer; log records, per invoked layer,  *)
(* its position, its input and the arguments it was called with.            *)

SeqChannels == GroupNormGroups
SeqEmb      == Vec(1, TimeEmbedFactor * SeqChannels)
SeqParams   == Vec(1, SeqChannels)
SeqInput    == Tensor(1, SeqChannels, 2, 2)

SeqLayerChoices ==
    { Conv2d(SeqChannels, SeqChannels),
      ResidualBlock(SeqChannels, SeqChannels, TimeEmbedFactor * SeqChannels),
      AttentionBlock(SeqChannels, 1),
      CrossModalAttentionBlock(SeqChannels, SeqChannels, 1),
      Upsample(SeqChannels, TRUE),
      Downsample(SeqChannels, TRUE) }

SqIdle == [pc |-> "idle", layers |-> <<>>, params |-> None, k |-> 0,
           x |-> SeqInput, log |-> <<>>, err |-> "none"]

\* one iteration of `for layer in self` (lines 50-56), or the return (57)
SeqLayerStep ==
    /\ sq.pc = "loop"
    /\ sq.k <= Len(sq.layers)
    /\ LET layer == sq.layers[sq.k]
           sig   == Dispatch(layer, sq.params)
           r     == CallLayer(layer, sig, sq.x, SeqEmb, sq.params)
           entry == [pos |-> sq.k, kind |-> layer.kind, sig |-> sig, input |-> sq.x,
                     output |-> r.t]
       IN  sq' = [sq EXCEPT !.log = Append(sq.log, entry),
                            !.x   = r.t,
                            !.k   = sq.k + 1,
                            !.err = r.err,
                            !.pc  = IF r.ok THEN "loop" ELSE "raised"]
    /\ UNCHANGED <<cfg, pc, down_blocks, down_block_chans, ch, ds, level, rep,
                   middle_block, up_blocks, img_out, param_out,
                   property_predictor, cerr, calls, hs, te>>

SeqReturn ==
    /\ sq.pc = "loop"
    /\ sq.k > Len(sq.layers)
    /\ sq' = [sq EXCEPT !.pc = "returned"]
    /\ UNCHANGED <<cfg, pc, down_blocks, down_block_chans, ch, ds, level, rep,
                   middle_block, up_blocks, img_out, param_out,
                   property_predictor, cerr, calls, hs, te>>

----------------------------------------------------------------------------
(* Construction: UNet.__init__ and UNet_Energy.__init__                     *)

AttnChoices  == {{}, {2}, {1, 4}}
MultChoices  == {1, 2}
HeadChoices  == {3, 4, 2 * GroupNormGroups}
WidthChoices == {GroupNormGroups, GroupNormGroups + 16}

Configs ==
    [variant             : {"UNet", "UNet_Energy"},
     in_channels         : {1},
     out_channels        : {1},
     model_channels      : WidthChoices,
     param_dim           : {8},
     param_hidden_dim    : {128},
     prop_dim            : {1},
     prop_hidden_dim     : {128},
     num_res_blocks      : 0..MaxResBlocks,
     attention_resolutions : AttnChoices,
     channel_mult        : SeqsUpTo(MultChoices, MaxLevels) \ {<<>>},
     conv_resample       : BOOLEAN,
     num_heads           : HeadChoices,
     use_cross_attention : BOOLEAN]

NumLevels == Len(cfg.channel_mult)

\* time_embed_dim = model_channels * 4
TimeEmbedDim == cfg.model_channels * TimeEmbedFactor

\* the exception raised by the constructor of one layer
LayerCtor(l) ==
    CASE l.kind = "ResidualBlock"            -> ResidualBlockCtor(l.cin, l.cout)
      [] l.kind = "AttentionBlock"           -> AttentionBlockCtor(l.cin, l.heads)
      [] l.kind = "CrossModalAttentionBlock" -> CrossModalAttentionBlockCtor(l.cin, l.heads)
      [] OTHER                               -> "none"

\* the first exception raised while the layers of a list are constructed
LayersCtor(layers) == FirstErr([k \in 1..Len(layers) |-> LayerCtor(layers[k])])

\* `if ds in attention_resolutions:` append self-attention and, when enabled,
\* cross-attention
AttentionLayers(c, d) ==
    IF d \in cfg.attention_resolutions
    THEN <<AttentionBlock(c, cfg.num_heads)>> \o
         (IF cfg.use_cross_attention
          THEN <<CrossModalAttentionBlock(c, cfg.param_hidden_dim, cfg.num_heads)>>
          ELSE <<>>)
    ELSE <<>>

\* layers of one encoder residual stage
EncoderLayers(cin, cout, d) ==
    <<ResidualBlock(cin, cout, TimeEmbedDim)>> \o AttentionLayers(cout, d)

\* `if level != len(channel_mult) - 1`
AppendsDownsample(lvl) == lvl # NumLevels - 1

\* middle_layers
MiddleLayers(c) ==
    <<ResidualBlock(c, c, TimeEmbedDim), AttentionBlock(c, cfg.num_heads)>> \o
    (IF cfg.use_cross_attention
     THEN <<CrossModalAttentionBlock(c, cfg.param_hidden_dim, cfg.num_heads)>>
     ELSE <<>>) \o
    <<ResidualBlock(c, c, TimeEmbedDim)>>

DecoderRepeats_NoExtra(n) == n

\* `for i in range(num_res_blocks + 1)`
DecoderRepeats(n) == n + 1

AppendsUpsample_EveryLevel(lvl, i) == i = cfg.num_res_blocks

\* `if level and i == num_res_blocks`
AppendsUpsample(lvl, i) == lvl # 0 /\ i = cfg.num_res_blocks

\* layers of one decoder stage
DecoderLayers(cin, cout, d, lvl, i) ==
    <<ResidualBlock(cin, cout, TimeEmbedDim)>> \o AttentionLayers(cout, d) \o
    (IF AppendsUpsample(lvl, i) THEN <<Upsample(cout, cfg.conv_resample)>> ELSE <<>>)

PushChan_Width(stack, c) == Append(stack, cfg.model_channels)

\* `down_block_chans.append(ch)` after a residual stage / after a Downsample
PushChan(stack, c) == Append(stack, c)

NoImgOut   == [norm |-> 0, conv |-> Conv2d(0, 0)]
NoLinear   == [cin |-> 0, cout |-> 0]
NoPropHead == [cin |-> 0, hidden |-> 0, cout |-> 0]

\* lines 265-303: fields, time embedding, parameter encoder, input projection
BeginInit ==
    /\ pc = "start"
    /\ down_blocks' = << <<Conv2d(cfg.in_channels, cfg.model_channels)>> >>
    /\ down_block_chans' = <<cfg.model_channels>>
    /\ ch' = cfg.model_channels
    /\ ds' = 1
    /\ level' = 0
    /\ rep' = 0
    /\ pc' = "enc"
    /\ UNCHANGED <<cfg, middle_block, up_blocks, img_out, param_out,
                   property_predictor, cerr, calls, hs, te, sq>>

\* lines 305-319: one repeat of the inner encoder loop
EncoderResStage ==
    /\ pc = "enc"
    /\ level < NumLevels
    /\ rep < cfg.num_res_blocks
    /\ LET mult   == cfg.channel_mult[level + 1]
           cout   == mult * cfg.model_channels
           layers == EncoderLayers(ch, cout, ds)
           err    == LayersCtor(layers)
       IN  IF err # "none"
           THEN /\ pc' = "failed"
                /\ cerr' = err
                /\ UNCHANGED <<down_blocks, down_block_chans, ch, rep>>
           ELSE /\ ch' = cout
                /\ down_blocks' = Append(down_blocks, layers)
                /\ down_block_chans' = PushChan(down_block_chans, cout)
                /\ rep' = rep + 1
                /\ UNCHANGED <<pc, cerr>>
    /\ UNCHANGED <<cfg, ds, level, middle_block, up_blocks, img_out, param_out,
                   property_predictor, calls, hs, te, sq>>

\* lines 320-323: end of one encoder level
EncoderDownStage ==
    /\ pc = "enc"
    /\ level < NumLevels
    /\ rep = cfg.num_res_blocks
    /\ IF AppendsDownsample(level)
       THEN /\ down_blocks' = Append(down_blocks, <<Downsample(ch, cfg.conv_resample)>>)
            /\ down_block_chans' = PushChan(down_block_chans, ch)
            /\ ds' = ds * 2
       ELSE UNCHANGED <<down_blocks, down_block_chans, ds>>
    /\ level' = level + 1
    /\ rep' = 0
    /\ pc' = IF level + 1 = NumLevels THEN "middle" ELSE "enc"
    /\ UNCHANGED <<cfg, ch, middle_block, up_blocks, img_out, param_out,
                   property_predictor, cerr, calls, hs, te, sq>>

\* lines 326-337
MiddleBlock ==
    /\ pc = "middle"
    /\ LET layers == MiddleLayers(ch)
           err    == LayersCtor(layers)
       IN  IF err # "none"
           THEN /\ pc' = "failed"
                /\ cerr' = err
                /\ UNCHANGED <<middle_block, level, rep>>
           ELSE /\ middle_block' = layers
                /\ pc' = IF cfg.variant = "UNet" THEN "dec" ELSE "prophead"
                /\ level' = NumLevels - 1
                /\ rep' = 0
                /\ UNCHANGED cerr
    /\ UNCHANGED <<cfg, down_blocks, down_block_chans, ch, ds, up_blocks, img_out,
                   param_out, property_predictor, calls, hs, te, sq>>

\* lines 342-363: one repeat of the inner decoder loop
DecoderStage ==
    /\ pc = "dec"
    /\ IF down_block_chans = <<>>
       THEN /\ pc' = "failed"
            /\ cerr' = "IndexError"
            /\ UNCHANGED <<down_block_chans, ch, ds, level, rep, up_blocks>>
       ELSE LET skip   == down_block_chans[Len(down_block_chans)]
                mult   == cfg.channel_mult[level + 1]
                cout   == cfg.model_channels * mult
                layers == DecoderLayers(ch + skip, cout, ds, level, rep)
                err    == LayersCtor(layers)
                last   == rep + 1 = DecoderRepeats(cfg.num_res_blocks)
            IN  /\ down_block_chans' = SubSeq(down_block_chans, 1, Len(down_block_chans) - 1)
                /\ IF err # "none"
                   THEN /\ pc' = "failed"
                        /\ cerr' = err
                        /\ UNCHANGED <<ch, ds, level, rep, up_blocks>>
                   ELSE /\ ch' = cout
                        /\ ds' = IF AppendsUpsample(level, rep) THEN ds \div 2 ELSE ds
                        /\ up_blocks' = Append(up_blocks, layers)
                        /\ rep' = IF last THEN 0 ELSE rep + 1
                        /\ level' = IF last THEN level - 1 ELSE level
                        /\ pc' = IF last /\ level = 0 THEN "heads" ELSE "dec"
                        /\ UNCHANGED cerr
    /\ UNCHANGED <<cfg, down_blocks, middle_block, img_out, param_out,
                   property_predictor, calls, hs, te, sq>>

\* lines 368-375: the two output heads of UNet
OutputHeads ==
    /\ pc = "heads"
    /\ IF ~NormLayerOK(ch)
       THEN /\ pc' = "failed"
            /\ cerr' = "ValueError"
            /\ UNCHANGED <<img_out, param_out>>
       ELSE /\ img_out' = [norm |-> ch,
                           conv |-> Conv2d(cfg.model_channels, cfg.out_channels)]
            /\ param_out' = [cin |-> cfg.param_hidden_dim, cout |-> cfg.param_dim]
            /\ pc' = "built"
            /\ UNCHANGED cerr
    /\ UNCHANGED <<cfg, down_blocks, down_block_chans, ch, ds, level, rep,
                   middle_block, up_blocks, property_predictor, calls, hs, te, sq>>

\* lines 510-516: the property head of UNet_Energy
PropertyHead ==
    /\ pc = "prophead"
    /\ property_predictor' = [cin |-> ch, hidden |-> cfg.prop_hidden_dim,
                              cout |-> cfg.prop_dim]
    /\ pc' = "built"
    /\ UNCHANGED <<cfg, down_blocks, down_block_chans, ch, ds, level, rep,
                   middle_block, up_blocks, img_out, param_out, cerr,
                   calls, hs, te, sq>>

----------------------------------------------------------------------------
(* Forward passes: UNet.forward and UNet_Energy.forward                     *)

Calls == 1..NumCalls

HsOf_Shared(c) == 1

\* `hs = []` is a local of the invocation: call c uses the stack of its own frame
HsOf(c) == c

NoTensor == Tensor(0, 0, 0, 0)
NoVec    == Vec(0, 0)

(* Contents.  Next to its shape a vector carries the function that produced *)
(* it and the contents of the forward arguments that function was applied   *)
(* to (0: not an argument of it).                                           *)

NoVals  == [x |-> 0, params |-> 0, timesteps |-> 0]
NoValue == [fn |-> "none", x |-> 0, params |-> 0, timesteps |-> 0]

\* contents of the arguments of a call that are not looked at
DefaultVals == [x |-> 1, params |-> 1, timesteps |-> 0]

ParamEncoderArgs_Image(vals) == vals

\* lines 389-392: emb is computed from timesteps, param_features from
\* (params, emb); x is no argument of either
ParamEncoderArgs(vals) ==
    [x |-> 0, params |-> vals.params, timesteps |-> vals.timesteps]

\* param_features = self.param_encoder(params, emb)
ParamFeaturesValue(vals) ==
    LET a == ParamEncoderArgs(vals)
    IN  [fn |-> "param_encoder", x |-> a.x, params |-> a.params,
         timesteps |-> a.timesteps]

\* param_out = self.param_out(param_features): a function of its argument only
ParamOutValue(pf) ==
    [fn |-> "param_out", x |-> pf.x, params |-> pf.params,
     timesteps |-> pf.timesteps]

IdleCall ==
    [pc |-> "idle", x |-> NoTensor, params |-> NoVec, timesteps |-> <<>>,
     emb |-> NoVec, param_features |-> NoVec, h |-> NoTensor, k |-> 0,
     image_out |-> NoTensor, vec_out |-> NoVec, err |-> "none",
     reads |-> {}, pushes |-> 0, pops |-> <<>>, cats |-> <<>>,
     vals |-> NoVals, pf_val |-> NoValue, pf_evals |-> 0,
     pf_passed |-> {}, pf_uses |-> 0, out_val |-> NoValue]

\* self.time_embed(timestep_embedding(timesteps, self.model_channels)):
\* the first Linear takes model_channels columns
TimeEmbed(timesteps) ==
    LET m == timestep_embedding(timesteps, cfg.model_channels)
    IN  IF Columns(m) # cfg.model_channels
        THEN Fail(NoVec, "RuntimeError")
        ELSE Ok(Vec(Len(timesteps), TimeEmbedDim))

\* ParameterEncoder.forward(params, time_emb), built with
\* param_dim, hidden_dim = out_dim = param_hidden_dim, time_dim = time_embed_dim
ParameterEncoderForward(params, emb) ==
    IF params.c # cfg.param_dim THEN Fail(NoVec, "RuntimeError")     \* input_proj
    ELSE IF emb.c # TimeEmbedDim THEN Fail(NoVec, "RuntimeError")    \* time_embed
    ELSE IF emb.n # params.n THEN Fail(NoVec, "RuntimeError")        \* h + time_emb
    ELSE Ok(Vec(params.n, cfg.param_hidden_dim))

\* torch.cat([h, skip], dim=1): all dimensions but the channels must agree
Cat(h, skip) ==
    IF h.n # skip.n \/ h.h # skip.h \/ h.w # skip.w
    THEN Fail(h, "RuntimeError")
    ELSE Ok(Tensor(h.n, h.c + skip.c, h.h, h.w))

\* self.img_out(h): GroupNorm(ch), SiLU, Conv2d(model_channels, out_channels)
ImgOutForward(head, h) ==
    IF h.c # head.norm THEN Fail(h, "RuntimeError")
    ELSE Conv2dForward(head.conv, h)

\* nn.Linear(cin, cout) on a vector
LinearForward(lin, v) ==
    IF v.c # lin.cin THEN Fail(v, "RuntimeError") ELSE Ok(Vec(v.n, lin.cout))

AdaptiveAvgPool_Skip(h) == h

\* nn.AdaptiveAvgPool2d(1)
AdaptiveAvgPool(h) == Tensor(h.n, h.c, 1, 1)

\* nn.Flatten()
Flatten(h) == Vec(h.n, h.c * h.h * h.w)

\* self.property_predictor(h): pool, flatten, Linear, SiLU, Linear
PropertyPredictorForward(head, h) ==
    LET v == Flatten(AdaptiveAvgPool(h))
        a == LinearForward([cin |-> head.cin, cout |-> head.hidden], v)
    IN  IF ~a.ok THEN a
        ELSE LinearForward([cin |-> head.hidden, cout |-> head.cout], a.t)

\* lines 387-395 (UNet.forward) and 528-536 (UNet_Energy.forward): the stack,
\* the time embedding, the parameter features, h = x
Prologue(c, n, H, W, argsRead, vals) ==
    LET x      == Tensor(n, cfg.in_channels, H, W)
        params == Vec(n, cfg.param_dim)
        ts     == [b \in 1..n |-> vals.timesteps]
    IN  \E e \in {TimeEmbed(ts)} :
        \E pf \in {IF e.ok THEN ParameterEncoderForward(params, e.t)
                   ELSE Fail(NoVec, e.err)} :
        /\ hs' = [hs EXCEPT ![HsOf(c)] = <<>>]
        /\ calls' = [calls EXCEPT ![c] =
              [IdleCall EXCEPT !.pc = IF pf.ok THEN "down" ELSE "raised",
                               !.err = pf.err,
                               !.x = x, !.params = params, !.timesteps = ts,
                               !.emb = e.t, !.param_features = pf.t,
                               !.h = x, !.k = 1, !.reads = argsRead,
                               !.vals = vals,
                               !.pf_val = ParamFeaturesValue(vals),
                               !.pf_evals = 1]]

ForwardBegin(c, n, H, W) ==
    /\ pc = "built"
    /\ cfg.variant = "UNet"
    /\ calls[c].pc = "idle"
    /\ Prologue(c, n, H, W, {"x", "params", "timesteps"}, DefaultVals)
    /\ UNCHANGED <<cfg, pc, down_blocks, down_block_chans, ch, ds, level, rep,
                   middle_block, up_blocks, img_out, param_out,
                   property_predictor, cerr, te, sq>>

\* UNet.forward on arguments of given contents
ForwardBeginVals(c, n, H, W, vals) ==
    /\ pc = "built"
    /\ cfg.variant = "UNet"
    /\ calls[c].pc = "idle"
    /\ Prologue(c, n, H, W, {"x", "params", "timesteps"}, vals)
    /\ UNCHANGED <<cfg, pc, down_blocks, down_block_chans, ch, ds, level, rep,
                   middle_block, up_blocks, img_out, param_out,
                   property_predictor, cerr, te, sq>>

EnergyForwardBegin(c, n, H, W) ==
    /\ pc = "built"
    /\ cfg.variant = "UNet_Energy"
    /\ calls[c].pc = "idle"
    /\ Prologue(c, n, H, W, {"x", "params", "timesteps"}, DefaultVals)
    /\ UNCHANGED <<cfg, pc, down_blocks, down_block_chans, ch, ds, level, rep,
                   middle_block, up_blocks, img_out, param_out,
                   property_predictor, cerr, te, sq>>

\* lines 396-398 / 537-539: one iteration of `for module in self.down_blocks`
ForwardDown(c) ==
    /\ calls[c].pc = "down"
    /\ calls[c].k <= Len(down_blocks)
    /\ LET me == calls[c]
           r  == TimestepEmbedSequentialForward(down_blocks[me.k], me.h, me.emb,
                                                me.param_features)
       IN  IF r.ok
           THEN /\ calls' = [calls EXCEPT ![c].h = r.t, ![c].k = me.k + 1,
                                          ![c].pushes = me.pushes + 1,
                                          ![c].pf_passed = me.pf_passed \cup {me.pf_val},
                                          ![c].pf_uses = me.pf_uses + 1]
                /\ hs' = [hs EXCEPT ![HsOf(c)] =
                             Append(@, [t |-> r.t, call |-> c, stage |-> me.k])]
           ELSE /\ calls' = [calls EXCEPT ![c].pc = "raised", ![c].err = r.err]
                /\ UNCHANGED hs
    /\ UNCHANGED <<cfg, pc, down_blocks, down_block_chans, ch, ds, level, rep,
                   middle_block, up_blocks, img_out, param_out,
                   property_predictor, cerr, te, sq>>

\* line 401 / 542
ForwardMiddle(c) ==
    /\ calls[c].pc = "down"
    /\ calls[c].k > Len(down_blocks)
    /\ LET me == calls[c]
           r  == TimestepEmbedSequentialForward(middle_block, me.h, me.emb,
                                                me.param_features)
       IN  IF r.ok
           THEN calls' = [calls EXCEPT ![c].h = r.t, ![c].k = 1,
                            ![c].pc = IF cfg.variant = "UNet" THEN "up" ELSE "head",
                            ![c].pf_passed = me.pf_passed \cup {me.pf_val},
                            ![c].pf_uses = me.pf_uses + 1]
           ELSE calls' = [calls EXCEPT ![c].pc = "raised", ![c].err = r.err]
    /\ UNCHANGED <<cfg, pc, down_blocks, down_block_chans, ch, ds, level, rep,
                   middle_block, up_blocks, img_out, param_out,
                   property_predictor, cerr, hs, te, sq>>

\* lines 404-406: one iteration of `for module in self.up_blocks`
ForwardUp(c) ==
    /\ calls[c].pc = "up"
    /\ calls[c].k <= Len(up_blocks)
    /\ LET me    == calls[c]
           stack == hs[HsOf(c)]
       IN  IF stack = <<>>
           THEN /\ calls' = [calls EXCEPT ![c].pc = "raised", ![c].err = "IndexError"]
                /\ UNCHANGED hs
           ELSE LET top == stack[Len(stack)]
                    cat == Cat(me.h, top.t)
                    r   == IF cat.ok
                           THEN TimestepEmbedSequentialForward(up_blocks[me.k], cat.t,
                                    me.emb, me.param_features)
                           ELSE cat
                    rec == [pops |-> Append(me.pops, [call |-> top.call, stage |-> top.stage]),
                            cats |-> Append(me.cats, [h |-> me.h, skip |-> top.t,
                                                      cat_in |-> cat.t, ok |-> cat.ok])]
                IN  /\ hs' = [hs EXCEPT ![HsOf(c)] = SubSeq(stack, 1, Len(stack) - 1)]
                    /\ IF r.ok
                       THEN calls' = [calls EXCEPT ![c].h = r.t, ![c].k = me.k + 1,
                                        ![c].pops = rec.pops, ![c].cats = rec.cats,
                                        ![c].pf_passed = me.pf_passed \cup {me.pf_val},
                                        ![c].pf_uses = me.pf_uses + 1]
                       ELSE calls' = [calls EXCEPT ![c].pc = "raised", ![c].err = r.err,
                                        ![c].pops = rec.pops, ![c].cats = rec.cats]
    /\ UNCHANGED <<cfg, pc, down_blocks, down_block_chans, ch, ds, level, rep,
                   middle_block, up_blocks, img_out, param_out,
                   property_predictor, cerr, te, sq>>

\* lines 409-412
ForwardOut(c) ==
    /\ calls[c].pc = "up"
    /\ calls[c].k > Len(up_blocks)
    /\ LET me == calls[c]
           io == ImgOutForward(img_out, me.h)
           po == LinearForward(param_out, me.param_features)
       IN  IF ~io.ok
           THEN calls' = [calls EXCEPT ![c].pc = "raised", ![c].err = io.err]
           ELSE IF ~po.ok
           THEN calls' = [calls EXCEPT ![c].pc = "raised", ![c].err = po.err]
           ELSE calls' = [calls EXCEPT ![c].pc = "returned",
                                       ![c].image_out = io.t, ![c].vec_out = po.t,
                                       ![c].out_val = ParamOutValue(me.pf_val)]
    /\ UNCHANGED <<cfg, pc, down_blocks, down_block_chans, ch, ds, level, rep,
                   middle_block, up_blocks, img_out, param_out,
                   property_predictor, cerr, hs, te, sq>>

\* line 544
EnergyForwardOut(c) ==
    /\ calls[c].pc = "head"
    /\ LET me == calls[c]
           r  == PropertyPredictorForward(property_predictor, me.h)
       IN  IF r.ok
           THEN calls' = [calls EXCEPT ![c].pc = "returned", ![c].vec_out = r.t]
           ELSE calls' = [calls EXCEPT ![c].pc = "raised", ![c].err = r.err]
    /\ UNCHANGED <<cfg, pc, down_blocks, down_block_chans, ch, ds, level, rep,
                   middle_block, up_blocks, img_out, param_out,
                   property_predictor, cerr, hs, te, sq>>

----------------------------------------------------------------------------
(* Specifications *)

InitNet ==
    /\ pc = "start"
    /\ down_blocks = <<>>
    /\ down_block_chans = <<>>
    /\ ch = 0
    /\ ds = 0
    /\ level = 0
    /\ rep = 0
    /\ middle_block = <<>>
    /\ up_blocks = <<>>
    /\ img_out = NoImgOut
    /\ param_out = NoLinear
    /\ property_predictor = NoPropHead
    /\ cerr = "none"
    /\ calls = [c \in Calls |-> IdleCall]
    /\ hs = [c \in Calls |-> <<>>]

\* construction of either model followed by one forward call
Init ==
    /\ cfg \in Configs
    /\ InitNet
    /\ te = TeIdle
    /\ sq = SqIdle

\* batch sizes of the forward calls
BatchChoices == {1, MaxBatch}

Construct ==
    \/ BeginInit
    \/ EncoderResStage
    \/ EncoderDownStage
    \/ MiddleBlock
    \/ DecoderStage
    \/ OutputHeads
    \/ PropertyHead

Next ==
    \/ Construct
    \/ \E n \in BatchChoices, H \in 1..MaxSize :
       \E W \in {H, MaxSize} :
          \/ ForwardBegin(1, n, H, W)
          \/ EnergyForwardBegin(1, n, H, W)
    \/ ForwardDown(1)
    \/ ForwardMiddle(1)
    \/ ForwardUp(1)
    \/ ForwardOut(1)
    \/ EnergyForwardOut(1)

Spec == Init /\ [][Next]_vars

\* the defaults of UNet.__init__
ReferenceConfig ==
    [variant |-> "UNet", in_channels |-> 1, out_channels |-> 1,
     model_channels |-> 128, param_dim |-> 8, param_hidden_dim |-> 128,
     prop_dim |-> 1, prop_hidden_dim |-> 128, num_res_blocks |-> 2,
     attention_resolutions |-> {8, 16}, channel_mult |-> <<1, 2, 2, 2>>,
     conv_resample |-> TRUE, num_heads |-> 4, use_cross_attention |-> TRUE]

\* timestep_embedding called on its own, for every dim and batch of timesteps
InitEmbed ==
    /\ cfg = ReferenceConfig
    /\ InitNet
    /\ sq = SqIdle
    /\ te \in [pc : {"start"},
               timesteps : UNION {[1..n -> TimestepVals] : n \in 1..MaxBatch},
               dim : 0..MaxDim,
               freqs : {<<>>}, args : {<<>>}, embedding : {<<>>}]

NextEmbed == TeFreqs \/ TeArgs \/ TeCat \/ TePad

SpecEmbed == InitEmbed /\ [][NextEmbed]_vars

\* one composer called on its own, with and without the parameter features
InitSeq ==
    /\ cfg = ReferenceConfig
    /\ InitNet
    /\ te = TeIdle
    /\ sq \in [pc : {"loop"},
               layers : SeqsUpTo(SeqLayerChoices, MaxBlocks),
               params : {None, SeqParams},
               k : {1}, x : {SeqInput}, log : {<<>>}, err : {"none"}]

NextSeq == SeqLayerStep \/ SeqReturn

SpecSeq == InitSeq /\ [][NextSeq]_vars

\* several forward calls interleaved on one UNet instance
ConcConfigs ==
    {c \in Configs :
        /\ c.variant = "UNet"
        /\ c.model_channels = GroupNormGroups
        /\ c.num_res_blocks = 1
        /\ c.attention_resolutions = {2}
        /\ c.channel_mult \in {<<1>>, <<1, 2>>}
        /\ c.conv_resample
        /\ c.num_heads = 4
        /\ c.use_cross_attention}

InitConc ==
    /\ cfg \in ConcConfigs
    /\ InitNet
    /\ te = TeIdle
    /\ sq = SqIdle

NextConc ==
    \/ BeginInit
    \/ EncoderResStage
    \/ EncoderDownStage
    \/ MiddleBlock
    \/ DecoderStage
    \/ OutputHeads
    \/ \E c \in Calls :
          \/ ForwardBegin(c, 1, 2, 2)
          \/ ForwardDown(c)
          \/ ForwardMiddle(c)
          \/ ForwardUp(c)
          \/ ForwardOut(c)

SpecConc == InitConc /\ [][NextConc]_vars

\* two forward calls on one UNet instance, on arguments of any contents
FlowVals == [x : {1, 2}, params : {1, 2}, timesteps : TimestepVals]

NextFlow ==
    \/ BeginInit
    \/ EncoderResStage
    \/ EncoderDownStage
    \/ MiddleBlock
    \/ DecoderStage
    \/ OutputHeads
    \/ \E c \in {1, 2} :
          \/ \E v \in FlowVals : ForwardBeginVals(c, 1, 2, 2, v)
          \/ ForwardDown(c)
          \/ ForwardMiddle(c)
          \/ ForwardUp(c)
          \/ ForwardOut(c)

SpecFlow == InitConc /\ [][NextFlow]_vars

----------------------------------------------------------------------------
(* Properties *)

\* number of layers of a class in a list of composers (a composer holds at
\* most a residual block, two attention blocks and a resampler)
CountKind(stages, kind) ==
    Cardinality({p \in (1..Len(stages)) \X (1..4) :
                    /\ p[2] <= Len(stages[p[1]])
                    /\ stages[p[1]][p[2]].kind = kind})

NumDownsamples == CountKind(down_blocks, "Downsample")
NumUpsamples   == CountKind(up_blocks, "Upsample")

HasUpsample(stage) == \E j \in 1..Len(stage) : stage[j].kind = "Upsample"

\* H and W of the call's input are divisible by f
InputDivisible(me, f) == me.x.h % f = 0 /\ me.x.w % f = 0

UNetBuilt   == cfg.variant = "UNet" /\ pc = "built"
EnergyBuilt == cfg.variant = "UNet_Energy" /\ pc = "built"

\* C1: for every constructed UNet with num_res_blocks >= 1 and every input
\* whose H and W are divisible by 2^(len(channel_mult)-1), forward does not
\* raise and returns image_out (N, out_channels, H, W), param_out (N, param_dim)
C1_ForwardShapes ==
    LET me == calls[1]
    IN  ( /\ UNetBuilt
          /\ cfg.num_res_blocks >= 1
          /\ me.pc # "idle"
          /\ InputDivisible(me, Pow2(NumLevels - 1)) )
        => /\ me.pc # "raised"
           /\ me.pc = "returned" =>
                 /\ me.image_out = Tensor(me.x.n, cfg.out_channels, me.x.h, me.x.w)
                 /\ me.vec_out = Vec(me.x.n, cfg.param_dim)

\* C2: in one UNet.forward the skip stack starts empty, gets one push per
\* encoder stage (projection, residual stages, downsamples), one pop per
\* decoder stage, is never popped while empty, decoder stage k gets the output
\* of encoder stage S-1-k, and the stack is empty when the decoder is done
C2_SkipStackDiscipline ==
    LET me == calls[1]
        S  == Len(down_blocks)
    IN  UNetBuilt =>
          /\ S = 1 + NumLevels * cfg.num_res_blocks + (NumLevels - 1)
          /\ Len(up_blocks) = S
          /\ me.err # "IndexError"
          /\ \A j \in 1..Len(hs[1]) : hs[1][j].stage = j
          /\ (me.pc = "down" /\ me.k = 1) => hs[1] = <<>>
          /\ me.pc = "down" =>
                /\ me.pushes = me.k - 1
                /\ Len(hs[1]) = me.pushes
                /\ me.pops = <<>>
          /\ me.pc \in {"up", "returned"} =>
                /\ me.pushes = S
                /\ Len(hs[1]) = S - Len(me.pops)
          /\ me.pc = "up" => Len(me.pops) = me.k - 1
          /\ \A j \in 1..Len(me.pops) : me.pops[j].stage = S - j + 1
          /\ ((me.pc = "up" /\ me.k > Len(up_blocks)) \/ me.pc = "returned") =>
                /\ hs[1] = <<>>
                /\ Len(me.pops) = S

C2_Witness ==
    /\ UNetBuilt
    /\ NumLevels = 3
    /\ cfg.num_res_blocks = 1
    /\ calls[1].pc = "returned"
    /\ Len(calls[1].pops) = 6
    /\ hs[1] = <<>>

\* C3: as many Upsample as Downsample stages; when H and W are divisible by
\* 2^(number of Downsample stages) every decoder concatenation joins tensors
\* of equal height and width, in both resampling modes, and the decoder ends
\* at the input's spatial size; a mismatch happens only on indivisible inputs
C3_SpatialAgreement ==
    LET me == calls[1]
        f  == Pow2(NumDownsamples)
    IN  UNetBuilt =>
          /\ NumUpsamples = NumDownsamples
          /\ InputDivisible(me, f) =>
                /\ \A j \in 1..Len(me.cats) :
                      /\ me.cats[j].ok
                      /\ me.cats[j].h.h = me.cats[j].skip.h
                      /\ me.cats[j].h.w = me.cats[j].skip.w
                /\ me.pc = "raised" => Len(me.pops) = Len(up_blocks)
                /\ (me.pc = "up" /\ me.k > Len(up_blocks)) =>
                      /\ me.h.h = me.x.h
                      /\ me.h.w = me.x.w
          /\ (\E j \in 1..Len(me.cats) :
                 \/ me.cats[j].h.h # me.cats[j].skip.h
                 \/ me.cats[j].h.w # me.cats[j].skip.w)
             => ~InputDivisible(me, f)

C3_Witness ==
    /\ UNetBuilt
    /\ ~cfg.conv_resample
    /\ NumDownsamples = 2
    /\ calls[1].x.h = 4
    /\ calls[1].x.w = 4
    /\ calls[1].pc = "up"
    /\ calls[1].k > Len(up_blocks)
    /\ calls[1].h.h = 4

\* the channel counts the attention blocks of the configuration get
AttnLevels == {l \in 0..(NumLevels - 1) : Pow2(l) \in cfg.attention_resolutions}

EncoderAttnChans ==
    IF cfg.num_res_blocks = 0 THEN {}
    ELSE {cfg.channel_mult[l + 1] * cfg.model_channels : l \in AttnLevels}

BottleneckAttnChans ==
    IF cfg.num_res_blocks = 0 THEN {cfg.model_channels}
    ELSE {cfg.channel_mult[NumLevels] * cfg.model_channels}

DecoderAttnChans ==
    IF cfg.variant = "UNet"
    THEN {cfg.channel_mult[l + 1] * cfg.model_channels : l \in AttnLevels}
    ELSE {}

AllHeadsDivide ==
    \A c \in EncoderAttnChans \cup BottleneckAttnChans \cup DecoderAttnChans :
        c % cfg.num_heads = 0

AttentionKinds == {"AttentionBlock", "CrossModalAttentionBlock"}

BuiltAttentionDivides(stages) ==
    \A i \in 1..Len(stages) : \A j \in 1..Len(stages[i]) :
        stages[i][j].kind \in AttentionKinds => stages[i][j].cin % stages[i][j].heads = 0

\* C4: an attention block whose channel count num_heads does not divide is
\* never constructed; construction of UNet / UNet_Energy completes only if
\* num_heads divides the channel count of every attention block of the
\* configuration, no forward call starts on a model that failed to build, and
\* the assertion fails only when some count is not divisible
C4_HeadsDivisibility ==
    /\ BuiltAttentionDivides(down_blocks)
    /\ BuiltAttentionDivides(<<middle_block>>)
    /\ BuiltAttentionDivides(up_blocks)
    /\ pc = "built" => AllHeadsDivide
    /\ cerr = "AssertionError" => ~AllHeadsDivide
    /\ calls[1].pc # "idle" => pc = "built"

C4_Witness ==
    /\ pc = "failed"
    /\ cerr = "AssertionError"
    /\ Len(down_blocks) >= 3
    /\ CountKind(down_blocks, "AttentionBlock") >= 1

C6_ExactlyDimColumns ==
    te.pc = "done" =>
        \A b \in 1..Len(te.embedding) :
            LET row == te.embedding[b]
            IN  /\ Len(row) = te.dim
                /\ \A k \in 1..Half(te.dim) :
                      /\ row[k].fn = "cos"
                      /\ row[Half(te.dim) + k].fn = "sin"
                /\ te.dim % 2 = 1 => row[te.dim].fn = "zero"

\* a decoder repeat has just appended its composer to up_blocks
DecoderAppended == pc = "dec" /\ Len(up_blocks') = Len(up_blocks) + 1

\* C7 (as stated): the decoder appends an Upsample, and halves ds, on the
\* last repeat of every stage except the one at the coarsest resolution
C7_UpsampleExceptCoarsest ==
    [][DecoderAppended =>
          LET stage == up_blocks'[Len(up_blocks')]
          IN  /\ (level = NumLevels - 1) <=> (ds = Pow2(NumLevels - 1))
              /\ HasUpsample(stage) <=>
                    (rep = cfg.num_res_blocks /\ level # NumLevels - 1)
              /\ ds' = IF HasUpsample(stage) THEN ds \div 2 ELSE ds]_vars

\* C7 (amended): the decoder appends an Upsample, and halves ds, on the last
\* repeat of every stage except the one at the finest resolution (level 0,
\* ds = 1, the last stage it builds), and on no other repeat
C7_UpsampleExceptFinest ==
    [][DecoderAppended =>
          LET stage == up_blocks'[Len(up_blocks')]
          IN  /\ (level = 0) <=> (ds = 1)
              /\ (level = NumLevels - 1) <=> (ds = Pow2(NumLevels - 1))
              /\ HasUpsample(stage) <=> (rep = cfg.num_res_blocks /\ level # 0)
              /\ ds' = IF HasUpsample(stage) THEN ds \div 2 ELSE ds]_vars

\* the last repeat of the coarsest decoder stage got an Upsample
C7_Witness ==
    /\ cfg.variant = "UNet"
    /\ NumLevels >= 2
    /\ Len(up_blocks) = cfg.num_res_blocks + 1
    /\ HasUpsample(up_blocks[cfg.num_res_blocks + 1])
    /\ ds = Pow2(NumLevels - 2)

C9_SkipChannels ==
    LET me == calls[1]
    IN  /\ cerr # "IndexError"
        /\ (cfg.variant = "UNet" /\ pc \in {"heads", "built"}) => down_block_chans = <<>>
        /\ UNetBuilt =>
              \A j \in 1..Len(me.cats) :
                  me.cats[j].ok =>
                     /\ up_blocks[j][1].kind = "ResidualBlock"
                     /\ up_blocks[j][1].cin = me.cats[j].cat_in.c
                     /\ me.cats[j].cat_in.c = me.cats[j].h.c + me.cats[j].skip.c

C9_Witness ==
    /\ UNetBuilt
    /\ down_block_chans = <<>>
    /\ cfg.channel_mult = <<1, 2>>
    /\ cfg.num_res_blocks = 1
    /\ Len(calls[1].cats) = Len(up_blocks)
    /\ \A j \in 1..Len(calls[1].cats) : calls[1].cats[j].ok

Weights == <<down_blocks, middle_block, up_blocks, img_out, param_out>>

OwnEntriesOnly ==
    \A c \in Calls :
        /\ calls[c].err # "IndexError"
        /\ \A j \in 1..Len(hs[c]) : hs[c][j].call = c /\ hs[c][j].stage = j
        /\ \A j \in 1..Len(calls[c].pops) :
              /\ calls[c].pops[j].call = c
              /\ calls[c].pops[j].stage = Len(down_blocks) - j + 1

\* C10: with forward calls interleaved on one instance, every pop of a call
\* returns a tensor that call pushed, in reverse order of its pushes, no call
\* sees another call's entries, and no forward step writes the weights
C10_OwnSkipStack ==
    /\ []OwnEntriesOnly
    /\ [][calls' # calls => Weights' = Weights]_vars

C10_Witness ==
    /\ calls[1].pc = "up"
    /\ calls[2].pc = "up"
    /\ Len(calls[1].pops) >= 1
    /\ Len(calls[2].pops) >= 1
    /\ hs[1] # <<>>
    /\ hs[2] # <<>>

\* the composers call c has run so far
StagesRun(me) ==
    CASE me.pc = "down"     -> me.k - 1
      [] me.pc = "up"       -> Len(down_blocks) + 1 + (me.k - 1)
      [] me.pc = "returned" -> Len(down_blocks) + 1 + Len(up_blocks)
      [] OTHER              -> me.pf_uses

ParamFeaturesOnce(me) ==
    me.pc # "idle" =>
        /\ me.pf_evals = 1
        /\ me.pf_val = [fn |-> "param_encoder", x |-> 0,
                        params |-> me.vals.params, timesteps |-> me.vals.timesteps]
        /\ (me.pc = "down" /\ me.k = 1) => me.pf_uses = 0
        /\ me.pf_uses = StagesRun(me)
        /\ me.pf_passed \subseteq {me.pf_val}
        /\ me.pc = "returned" =>
              /\ me.pf_passed = {me.pf_val}
              /\ me.out_val.fn = "param_out"
              /\ me.out_val.x = 0

\* C11: in UNet.forward the parameter features are computed once, before the
\* first encoder stage, from (params, timesteps) only, and that one value is
\* passed to every encoder, bottleneck and decoder stage; two calls with
\* equal params and timesteps return the same param_out whatever their images
C11_ParamOutIgnoresImage ==
    /\ ParamFeaturesOnce(calls[1])
    /\ ParamFeaturesOnce(calls[2])
    /\ ( /\ calls[1].pc = "returned"
         /\ calls[2].pc = "returned"
         /\ calls[1].vals.params = calls[2].vals.params
         /\ calls[1].vals.timesteps = calls[2].vals.timesteps )
       => calls[1].out_val = calls[2].out_val

C11_Witness ==
    /\ calls[1].pc = "returned"
    /\ calls[2].pc = "returned"
    /\ cfg.channel_mult = <<1, 2>>
    /\ calls[1].vals.x # calls[2].vals.x
    /\ calls[1].vals.params = calls[2].vals.params
    /\ calls[1].vals.timesteps = calls[2].vals.timesteps
    /\ calls[1].pf_uses = Len(down_blocks) + 1 + Len(up_blocks)
    /\ calls[1].out_val = calls[2].out_val

====
